---- MODULE Spec2Model ----
(***************************************************************************)
(* Model of core/auth.py: the admin-key extractor and the three guard      *)
(* decorators (path prefix, admin key, path prefix + admin key).           *)
(*                                                                         *)
(* A Python str is a sequence of one-character strings, so that            *)
(* str.startswith and str.replace are computed character by character.     *)
(* Python's None is the sentinel value None below.                         *)
(***************************************************************************)
EXTENDS Integers, Sequences, FiniteSets, TLC

VARIABLES PATH_PREFIX,   \* the path_prefix_value the decorators are built with
          ADMIN_KEY,     \* the admin_key_value the decorators are built with
          request,       \* the request being served on the guarded routes
          result,        \* per guarded route: the outcome of its wrapper
          ex_args,       \* arguments of a direct call of extract_admin_key
          ex_ret         \* value returned by that call

vars == <<PATH_PREFIX, ADMIN_KEY, request, result, ex_args, ex_ret>>

----------------------------------------------------------------------------
(* Bounds of the explored inputs *)

MaxChunks == 3      \* header of a direct extract_admin_key call: chunks
MaxKeyChunks == 2   \* key values: chunks
MaxHdrChunks == 2   \* header of a guarded request: chunks
MaxPathLen == 2     \* path segment of a guarded request: characters

----------------------------------------------------------------------------
(* Values *)

None == <<"None">>

BearerPrefix == <<"B", "e", "a", "r", "e", "r", " ">>

Chunks == {BearerPrefix, <<"s">>, <<"x">>}

\* the characters the chunks are made of
Chars == {"B", "e", "a", "r", " ", "s", "x"}

PathChars == {"a", "A"}

RECURSIVE Concats(_)
Concats(n) ==
    IF n = 0 THEN {<<>>}
    ELSE LET prev == Concats(n - 1)
         IN  prev \cup {c \o s : c \in Chunks, s \in prev}

RECURSIVE PathStrings(_)
PathStrings(n) ==
    IF n = 0 THEN {<<>>}
    ELSE LET prev == PathStrings(n - 1)
         IN  prev \cup {<<c>> \o s : c \in PathChars, s \in prev}

KeyValues == {None} \cup Concats(MaxKeyChunks)
ExtractHeaderValues == {None} \cup Concats(MaxChunks)
HeaderValues == {None} \cup Concats(MaxHdrChunks)
PathValues == PathStrings(MaxPathLen)
OtherValues == {0, 1}

PathPrefixConfigs == {<<"a">>, <<"a", "a">>}
AdminKeyConfigs == {<<"s">>, BearerPrefix \o <<"s">>}

----------------------------------------------------------------------------
(* Python primitives used by the module *)

\* truth value of an Optional[str]: None and "" are false
Truthy(v) == v # None /\ v # <<>>

\* str.startswith
StartsWith(s, p) == Len(s) >= Len(p) /\ SubSeq(s, 1, Len(p)) = p

\* str.replace(old, new): every non-overlapping occurrence, left to right
RECURSIVE Replace(_, _, _)
Replace(s, old, new) ==
    IF Len(s) < Len(old) THEN s
    ELSE IF StartsWith(s, old)
         THEN new \o Replace(SubSeq(s, Len(old) + 1, Len(s)), old, new)
         ELSE <<Head(s)>> \o Replace(Tail(s), old, new)

----------------------------------------------------------------------------
(* extract_admin_key *)

\* mutant: the key is normalised like the header
extract_admin_key_strips_key(key, authorization) ==
    IF Truthy(key)
    THEN IF StartsWith(key, BearerPrefix) THEN Replace(key, BearerPrefix, <<>>) ELSE key
    ELSE IF Truthy(authorization)
         THEN IF StartsWith(authorization, BearerPrefix)
              THEN Replace(authorization, BearerPrefix, <<>>)
              ELSE authorization
         ELSE None

\* mutant: an empty remainder is reported as None
extract_admin_key_empty_is_none(key, authorization) ==
    IF Truthy(key) THEN key
    ELSE IF Truthy(authorization)
         THEN LET r == IF StartsWith(authorization, BearerPrefix)
                       THEN Replace(authorization, BearerPrefix, <<>>)
                       ELSE authorization
              IN  IF r = <<>> THEN None ELSE r
         ELSE None

extract_admin_key(key, authorization) ==
    IF Truthy(key) THEN key
    ELSE IF Truthy(authorization)
         THEN IF StartsWith(authorization, BearerPrefix)
              THEN Replace(authorization, BearerPrefix, <<>>)
              ELSE authorization
         ELSE None

----------------------------------------------------------------------------
(* The wrappers.  A wrapper is given the keyword arguments of the call and *)
(* either raises an HTTPException or calls the function it wraps.          *)

\* the keyword arguments a wrapper is called with; extract_calls counts the
\* calls of extract_admin_key made while serving the request
Call(path_prefix, key, authorization, other) ==
    [path_prefix |-> path_prefix, key |-> key,
     authorization |-> authorization, other |-> other, extract_calls |-> 0]

HTTPException(status_code, detail, call) ==
    [kind |-> "raise", status |-> status_code, detail |-> detail, call |-> call]

\* `await func(...)` with the given keyword arguments
func(call) ==
    [kind |-> "call", status |-> 0, detail |-> "", call |-> call]

\* mutant: the path segment is compared ignoring case
LowerChar(c) == IF c = "A" THEN "a" ELSE c
Lower(s) == [i \in 1..Len(s) |-> LowerChar(s[i])]
require_path_prefix_ignores_case(path_prefix_value, call) ==
    IF Lower(call.path_prefix) # Lower(path_prefix_value)
    THEN HTTPException(404, "Not Found", call)
    ELSE func(call)

require_path_prefix(path_prefix_value, call) ==
    IF call.path_prefix # path_prefix_value
    THEN HTTPException(404, "Not Found", call)
    ELSE func(call)

\* mutant: a request without any candidate is let through
require_admin_auth_skips_absent(admin_key_value, call) ==
    LET admin_key == extract_admin_key(call.key, call.authorization)
        called == [call EXCEPT !.extract_calls = @ + 1]
    IN  IF admin_key # None /\ admin_key # admin_key_value
        THEN HTTPException(404, "Not Found", called)
        ELSE func(called)

\* mutant: the header is tried when the key does not match
require_admin_auth_falls_back(admin_key_value, call) ==
    LET admin_key == extract_admin_key(call.key, call.authorization)
        second == extract_admin_key(None, call.authorization)
        called == [call EXCEPT !.extract_calls = @ + 1]
    IN  IF admin_key # admin_key_value /\ second # admin_key_value
        THEN HTTPException(404, "Not Found", called)
        ELSE func(called)

require_admin_auth(admin_key_value, call) ==
    LET admin_key == extract_admin_key(call.key, call.authorization)
        called == [call EXCEPT !.extract_calls = @ + 1]
    IN  IF admin_key # admin_key_value
        THEN HTTPException(404, "Not Found", called)
        ELSE func(called)

\* mutant: a correct key makes up for a wrong path
require_path_and_admin_either(path_prefix_value, admin_key_value, call) ==
    LET admin_key == extract_admin_key(call.key, call.authorization)
        called == [call EXCEPT !.extract_calls = @ + 1]
    IN  IF call.path_prefix # path_prefix_value /\ admin_key # admin_key_value
        THEN HTTPException(404, "Not Found", called)
        ELSE func(called)

\* mutant: a wrong key is answered with 403
require_path_and_admin_forbidden(path_prefix_value, admin_key_value, call) ==
    IF call.path_prefix # path_prefix_value
    THEN HTTPException(404, "Not Found", call)
    ELSE LET admin_key == extract_admin_key(call.key, call.authorization)
             called == [call EXCEPT !.extract_calls = @ + 1]
         IN  IF admin_key # admin_key_value
             THEN HTTPException(403, "Forbidden", called)
             ELSE func(called)

\* mutant: the handler is given the normalised candidate as the header
require_path_and_admin_normalised(path_prefix_value, admin_key_value, call) ==
    IF call.path_prefix # path_prefix_value
    THEN HTTPException(404, "Not Found", call)
    ELSE LET admin_key == extract_admin_key(call.key, call.authorization)
             called == [call EXCEPT !.extract_calls = @ + 1]
         IN  IF admin_key # admin_key_value
             THEN HTTPException(404, "Not Found", called)
             ELSE func([called EXCEPT !.authorization = admin_key])

\* mutant: the key is extracted before the path is checked
require_path_and_admin_extracts_first(path_prefix_value, admin_key_value, call) ==
    LET admin_key == extract_admin_key(call.key, call.authorization)
        called == [call EXCEPT !.extract_calls = @ + 1]
    IN  IF call.path_prefix # path_prefix_value
        THEN HTTPException(404, "Not Found", called)
        ELSE IF admin_key # admin_key_value
             THEN HTTPException(404, "Not Found", called)
             ELSE func(called)

require_path_and_admin(path_prefix_value, admin_key_value, call) ==
    IF call.path_prefix # path_prefix_value
    THEN HTTPException(404, "Not Found", call)
    ELSE LET admin_key == extract_admin_key(call.key, call.authorization)
             called == [call EXCEPT !.extract_calls = @ + 1]
         IN  IF admin_key # admin_key_value
             THEN HTTPException(404, "Not Found", called)
             ELSE func(called)

\* @require_path_prefix(P) stacked on @require_admin_auth(S): the function
\* the path wrapper calls is the admin wrapper
require_path_prefix_then_admin_auth(path_prefix_value, admin_key_value, call) ==
    LET outer == require_path_prefix(path_prefix_value, call)
    IN  IF outer.kind = "raise" THEN outer
        ELSE require_admin_auth(admin_key_value, outer.call)

----------------------------------------------------------------------------
(* Outcome of a request on a guarded route *)

NoArgs == [path_prefix |-> None, key |-> None, authorization |-> None, other |-> 0]

Pending ==
    [state |-> "pending", status |-> 0, detail |-> "", invoked |-> FALSE,
     args |-> NoArgs, extract_calls |-> 0]

\* what the caller of the outermost wrapper observes: the HTTPException turned
\* into a response, or the handler run with the arguments it was called with
Outcome(w) ==
    IF w.kind = "raise"
    THEN [state |-> "done", status |-> w.status, detail |-> w.detail,
          invoked |-> FALSE, args |-> NoArgs,
          extract_calls |-> w.call.extract_calls]
    ELSE [state |-> "done", status |-> 200, detail |-> "OK",
          invoked |-> TRUE,
          args |-> [path_prefix |-> w.call.path_prefix, key |-> w.call.key,
                    authorization |-> w.call.authorization,
                    other |-> w.call.other],
          extract_calls |-> w.call.extract_calls]

Routes == {"path", "admin", "combined", "stacked"}

Idle == [active |-> FALSE, path_prefix |-> None, key |-> None,
         authorization |-> None, other |-> 0]

RequestCall == Call(request.path_prefix, request.key,
                    request.authorization, request.other)

NoCall == [called |-> FALSE, key |-> None, authorization |-> None]

----------------------------------------------------------------------------
(* Guarded routes *)

Init ==
    /\ PATH_PREFIX \in PathPrefixConfigs
    /\ ADMIN_KEY \in AdminKeyConfigs
    /\ request = Idle
    /\ result = [r \in Routes |-> Pending]
    /\ ex_args = NoCall
    /\ ex_ret = None

Receive ==
    /\ ~request.active
    /\ \E p \in PathValues, k \in KeyValues, h \in HeaderValues, o \in OtherValues :
          request' = [active |-> TRUE, path_prefix |-> p, key |-> k,
                      authorization |-> h, other |-> o]
    /\ result' = [r \in Routes |-> Pending]
    /\ UNCHANGED <<PATH_PREFIX, ADMIN_KEY, ex_args, ex_ret>>

Serve(route, w) ==
    /\ request.active
    /\ result[route].state = "pending"
    /\ result' = [result EXCEPT ![route] = Outcome(w)]
    /\ UNCHANGED <<PATH_PREFIX, ADMIN_KEY, request, ex_args, ex_ret>>

PathRoute == Serve("path", require_path_prefix(PATH_PREFIX, RequestCall))

AdminRoute == Serve("admin", require_admin_auth(ADMIN_KEY, RequestCall))

CombinedRoute ==
    Serve("combined", require_path_and_admin(PATH_PREFIX, ADMIN_KEY, RequestCall))

StackedRoute ==
    Serve("stacked",
          require_path_prefix_then_admin_auth(PATH_PREFIX, ADMIN_KEY, RequestCall))

Finish ==
    /\ request.active
    /\ \A r \in Routes : result[r].state = "done"
    /\ request' = Idle
    /\ result' = [r \in Routes |-> Pending]
    /\ UNCHANGED <<PATH_PREFIX, ADMIN_KEY, ex_args, ex_ret>>

Next ==
    \/ Receive
    \/ PathRoute
    \/ AdminRoute
    \/ CombinedRoute
    \/ StackedRoute
    \/ Finish

Spec == Init /\ [][Next]_vars

----------------------------------------------------------------------------
(* Direct calls of extract_admin_key *)

InitExtract ==
    /\ PATH_PREFIX \in PathPrefixConfigs
    /\ ADMIN_KEY \in AdminKeyConfigs
    /\ request = Idle
    /\ result = [r \in Routes |-> Pending]
    /\ ex_args = NoCall
    /\ ex_ret = None

CallExtract ==
    /\ \E k \in KeyValues, h \in ExtractHeaderValues :
          /\ ex_args' = [called |-> TRUE, key |-> k, authorization |-> h]
          /\ ex_ret' = extract_admin_key(k, h)
    /\ UNCHANGED <<PATH_PREFIX, ADMIN_KEY, request, result>>

NextExtract == CallExtract

SpecExtract == InitExtract /\ [][NextExtract]_vars

----------------------------------------------------------------------------
(* Properties *)

Candidate == extract_admin_key(request.key, request.authorization)

Done(route) == request.active /\ result[route].state = "done"

Rejected(route) == Done(route) /\ ~result[route].invoked

RequestArgs ==
    [path_prefix |-> request.path_prefix, key |-> request.key,
     authorization |-> request.authorization, other |-> request.other]

\* the remainder of h after one leading "Bearer "
AfterPrefix(h) == SubSeq(h, Len(BearerPrefix) + 1, Len(h))

\* C1: with no explicit value, a non-empty header that starts with "Bearer "
\* yields exactly the remainder after that one leading prefix (later
\* occurrences of "Bearer " are kept), and any other non-empty header is
\* returned unchanged.
C1_StripsOnlyLeadingPrefix ==
    (ex_args.called /\ ~Truthy(ex_args.key) /\ Truthy(ex_args.authorization))
        => ex_ret = IF StartsWith(ex_args.authorization, BearerPrefix)
                    THEN AfterPrefix(ex_args.authorization)
                    ELSE ex_args.authorization

\* C2: a non-empty explicit value is returned unchanged whatever the header
\* is, and is not stripped of a "Bearer " prefix of its own.
C2_ExplicitWins ==
    (ex_args.called /\ Truthy(ex_args.key)) => ex_ret = ex_args.key

C2_Witness ==
    /\ ex_args.called
    /\ StartsWith(ex_args.key, BearerPrefix)
    /\ Truthy(ex_args.authorization)
    /\ ex_args.authorization # ex_args.key
    /\ ex_ret = ex_args.key

\* C3: the result is None exactly when both the explicit value and the header
\* are absent or empty; otherwise it is a string; the header "Bearer " alone
\* yields the empty string, which is not None.
C3_AbsentIffBothEmpty ==
    ex_args.called =>
        /\ (ex_ret = None) <=>
               (~Truthy(ex_args.key) /\ ~Truthy(ex_args.authorization))
        /\ (ex_ret # None) => ex_ret \in Seq(Chars)
        /\ (~Truthy(ex_args.key) /\ ex_args.authorization = BearerPrefix)
               => (ex_ret = <<>> /\ ex_ret # None)

C3_Witness ==
    /\ ex_args.called
    /\ ~Truthy(ex_args.key)
    /\ ex_args.authorization = BearerPrefix
    /\ ex_ret = <<>>

\* C4: behind require_admin_auth the handler runs if and only if the
\* candidate extracted from the request equals the configured key; every
\* other request, the empty-string candidate included, ends with 404.
C4_AdminGuard ==
    Done("admin") =>
        /\ result["admin"].invoked <=> (Candidate = ADMIN_KEY)
        /\ ~result["admin"].invoked => result["admin"].status = 404

C4_Witness ==
    /\ Rejected("admin")
    /\ ~Truthy(request.key)
    /\ request.authorization = BearerPrefix
    /\ Candidate = <<>>
    /\ ADMIN_KEY # <<>>
    /\ result["admin"].status = 404

\* C5: behind require_path_prefix the handler runs if and only if the path
\* segment is exactly the configured one (case-sensitive); any other segment
\* ends with 404.
C5_PathGuard ==
    Done("path") =>
        /\ result["path"].invoked <=> (request.path_prefix = PATH_PREFIX)
        /\ ~result["path"].invoked => result["path"].status = 404

C5_Witness ==
    /\ Rejected("path")
    /\ request.path_prefix # PATH_PREFIX
    /\ Lower(request.path_prefix) = Lower(PATH_PREFIX)
    /\ result["path"].status = 404

\* C6: behind require_path_and_admin the handler runs only if the path
\* segment and the candidate both match; a wrong path with the right key and
\* a right path with a wrong or absent key end with 404.
C6_CombinedGuard ==
    Done("combined") =>
        /\ result["combined"].invoked <=>
               (request.path_prefix = PATH_PREFIX /\ Candidate = ADMIN_KEY)
        /\ ~result["combined"].invoked => result["combined"].status = 404

C6_Witness ==
    /\ Rejected("combined")
    /\ request.path_prefix # PATH_PREFIX
    /\ Candidate = ADMIN_KEY
    /\ result["combined"].status = 404

\* C7: every rejection by any guard is the same response, 404 "Not Found",
\* whichever check failed; no guard answers 401 or 403.
C7_UniformRejection ==
    /\ \A r \in Routes :
          Rejected(r) => /\ result[r].status = 404
                         /\ result[r].detail = "Not Found"
    /\ \A r1, r2 \in Routes :
          (Rejected(r1) /\ Rejected(r2)) =>
              /\ result[r1].status = result[r2].status
              /\ result[r1].detail = result[r2].detail
    /\ \A r \in Routes : Done(r) => result[r].status \notin {401, 403}

C7_Witness ==
    /\ Rejected("path")
    /\ Rejected("admin")
    /\ Rejected("combined")
    /\ Rejected("stacked")
    /\ request.path_prefix # PATH_PREFIX
    /\ Candidate # None
    /\ Candidate # ADMIN_KEY

\* C8: when a guard accepts, the handler is given the path segment, the
\* explicit value, the header (with its "Bearer " prefix) and every other
\* argument exactly as they entered the guard.
C8_ArgumentsPreserved ==
    \A r \in Routes :
        (Done(r) /\ result[r].invoked) => result[r].args = RequestArgs

C8_Witness ==
    /\ Done("combined")
    /\ result["combined"].invoked
    /\ ~Truthy(request.key)
    /\ StartsWith(request.authorization, BearerPrefix)
    /\ result["combined"].args.authorization = request.authorization
    /\ request.other = 1

\* C9: require_path_and_admin(P, S) has the same outcome as
\* require_path_prefix(P) stacked on require_admin_auth(S), and both reject
\* a wrong path before the key is extracted.
C9_CombinedIsStacked ==
    (Done("combined") /\ Done("stacked")) =>
        /\ result["combined"] = result["stacked"]
        /\ request.path_prefix # PATH_PREFIX =>
               /\ result["combined"].status = 404
               /\ result["combined"].extract_calls = 0
               /\ result["stacked"].extract_calls = 0

C9_Witness ==
    /\ Done("combined")
    /\ Done("stacked")
    /\ request.path_prefix # PATH_PREFIX
    /\ Candidate = ADMIN_KEY
    /\ result["combined"].extract_calls = 0

\* C10: a non-empty explicit value that differs from the configured key is
\* rejected with 404 by the admin guard and by the combined guard even when
\* the header carries the right key; the header decides only when the
\* explicit value is absent or empty.
C10_NoFallbackToHeader ==
    \A r \in {"admin", "combined"} :
        (Done(r) /\ Truthy(request.key)) =>
            /\ request.key # ADMIN_KEY =>
                   (~result[r].invoked /\ result[r].status = 404)
            /\ \A h \in HeaderValues :
                   LET other == Call(request.path_prefix, request.key, h,
                                     request.other)
                       w == IF r = "admin"
                            THEN require_admin_auth(ADMIN_KEY, other)
                            ELSE require_path_and_admin(PATH_PREFIX, ADMIN_KEY,
                                                        other)
                   IN  Outcome(w).invoked = result[r].invoked

C10_Witness ==
    /\ Rejected("admin")
    /\ Rejected("combined")
    /\ request.path_prefix = PATH_PREFIX
    /\ Truthy(request.key)
    /\ request.key # ADMIN_KEY
    /\ extract_admin_key(None, request.authorization) = ADMIN_KEY
    /\ StartsWith(request.authorization, BearerPrefix)

====
